---- MODULE Spec2Model ----
(***************************************************************************)
(* A model of src/main.c: the UDP "network communicator".  One client and  *)
(* one server exchange customPktHeader frames over two FIFO datagram        *)
(* queues.  The client's actions are the stretches of client() between two *)
(* blocking recvfrom calls; the server's action is one turn of the receive *)
(* loop of server().                                                        *)
(***************************************************************************)
EXTENDS Integers, Sequences, FiniteSets, TLC

(***************************************************************************)
(* Program constants.                                                       *)
(***************************************************************************)
FRAG_SIZE == 512
sendSize == 7
ReplySize == 64
InitSize == 64
DiagAttempts == 5
Half == 65536
PolyHi == 60856
PolyLo == 33568

ACK == 0
RESEND == 1
INTEGRITY == 3
INIT == 4
DIAG == 8
DATA == 10
LAST == 16

(***************************************************************************)
(* Bounds of the model.                                                     *)
(***************************************************************************)
MaxOps == 2
FragOps == 1
MaxFrags == 2
MaxCorrupt == 1
MaxInject == 3

(***************************************************************************)
(* Byte strings.  A char buffer is a sequence of bytes; the bytes after its *)
(* end are zero.                                                            *)
(***************************************************************************)
Min(S) == CHOOSE a \in S : \A b \in S : a <= b
Max(S) == CHOOSE a \in S : \A b \in S : a >= b
Only(S) == CHOOSE e \in S : TRUE

BufAt(buf, k) == IF k <= Len(buf) THEN buf[k] ELSE 0

\* strlen: the number of bytes before the first zero byte
strlen(buf) ==
    LET z == {k \in 1..Len(buf) : buf[k] = 0}
    IN IF z = {} THEN Len(buf) ELSE Min(z) - 1

\* the zero-terminated string a buffer holds, as printf("%s") and crc32b read it
CStr(buf) == SubSeq(buf, 1, strlen(buf))

\* a buffer without its trailing zero bytes
Trim(buf) ==
    LET nz == {k \in 1..Len(buf) : buf[k] # 0}
    IN IF nz = {} THEN <<>> ELSE SubSeq(buf, 1, Max(nz))

\* the first n bytes of a buffer, as sendto copies them to the wire
FirstBytes(buf, n) == [k \in 1..n |-> BufAt(buf, k)]

\* recvfrom into a buffer: the datagram's bytes replace the first bytes of the
\* buffer and the rest of the buffer stays as it was
Overwrite(buf, bytes) ==
    Trim(bytes \o SubSeq(buf, Len(bytes) + 1, Len(buf)))

\* buf[idx] = c, idx counted from 0 as in C
WriteAt(buf, idx, c) ==
    IF idx = Len(buf) THEN Append(buf, c)
    ELSE IF idx < Len(buf) THEN [buf EXCEPT ![idx + 1] = c]
    ELSE [k \in 1..(idx + 1) |-> IF k = idx + 1 THEN c ELSE BufAt(buf, k)]

\* strcpy(buf, s): the bytes of s and a terminating zero
strcpy(buf, str) == Trim(str \o <<0>> \o SubSeq(buf, Len(str) + 2, Len(buf)))

(***************************************************************************)
(* crc32b.  A 32-bit value is the pair <<high 16 bits, low 16 bits>>.       *)
(***************************************************************************)
RECURSIVE XorBits(_, _)
XorBits(a, b) ==
    IF a = 0 THEN b
    ELSE IF b = 0 THEN a
    ELSE ((a + b) % 2) + 2 * XorBits(a \div 2, b \div 2)

XorByte == [a \in 0..255 |-> [b \in 0..255 |-> XorBits(a, b)]]

\* a ^ b on 16-bit values
Xor(a, b) == XorByte[a \div 256][b \div 256] * 256 + XorByte[a % 256][b % 256]

\* mask = -(crc & 1); crc = (crc >> 1) ^ (0xEDB88320 & mask)
ShiftOne(s1) ==
    LET h == s1[1] \div 2
        l == (s1[2] \div 2) + (s1[1] % 2) * (Half \div 2)
    IN IF s1[2] % 2 = 1 THEN <<Xor(h, PolyHi), Xor(l, PolyLo)>> ELSE <<h, l>>

\* for (j = 7; j >= 0; j--)
RECURSIVE Shift(_, _)
Shift(s8, j) == IF j = 0 THEN s8 ELSE Shift(ShiftOne(s8), j - 1)

\* crc = crc ^ byte, then the eight shifts
CrcByte(crc, byte) == Shift(<<crc[1], Xor(crc[2], byte)>>, 8)

\* the while loop over bytes lo..hi of m, each half of the range in turn
RECURSIVE CrcRange(_, _, _, _)
CrcRange(m, lo, hi, crc) ==
    IF lo > hi THEN crc
    ELSE IF lo = hi THEN CrcByte(crc, m[lo])
    ELSE Only({CrcRange(m, ((lo + hi) \div 2) + 1, hi, c) :
                  c \in {CrcRange(m, lo, (lo + hi) \div 2, crc)}})

\* the loop runs while message[i] != 0, and the result is ~crc
crc32b(msg) ==
    LET c == Only({CrcRange(msg, 1, strlen(msg), <<Half - 1, Half - 1>>)})
    IN <<Half - 1 - c[1], Half - 1 - c[2]>>

\* crc32b(...) + 1 in 32 bits
PlusOne(c) ==
    IF c[2] + 1 < Half THEN <<c[1], c[2] + 1>> ELSE <<(c[1] + 1) % Half, 0>>

(***************************************************************************)
(* Inputs.                                                                  *)
(***************************************************************************)
\* "This is a test message."
TestMessage ==
    <<84, 104, 105, 115, 32, 105, 115, 32, 97, 32, 116, 101, 115, 116, 32,
      109, 101, 115, 115, 97, 103, 101, 46>>

\* the text typed at the prompt: L bytes, none of them zero
Text(L) == [k \in 1..L |-> 97 + (k % 23)]

\* lengths next to every multiple of the packet size, for the fragmentation
Lengths ==
    {0, 2} \cup
    UNION {{f * FRAG_SIZE - 2, f * FRAG_SIZE - 1, f * FRAG_SIZE, f * FRAG_SIZE + 1} :
              f \in 1..MaxFrags}

Messages == {Text(L) : L \in Lengths}

\* the empty and a short message, one that fills a packet and one that overflows it
SessionMessages == {Text(L) : L \in {0, 2, FRAG_SIZE, FRAG_SIZE + 1}}

\* what the uninitialized header of client() may hold in its first bytes
StackGarbage ==
    { [crcChecksum |-> <<0, 0>>, message |-> <<>>],
      [crcChecksum |-> <<43981, 4660>>, message |-> [k \in 1..(InitSize - sendSize) |-> 165]] }

(***************************************************************************)
(* State.                                                                   *)
(***************************************************************************)
VARIABLES
    cpc,                 \* where client() stands: the blocking call it is in
    mode,                \* client: the menu choice
    resendAttempts,      \* client
    header,              \* client: the customPktHeader it sends
    response,            \* client: the customPktHeader it receives into (its type)
    message,             \* client: the text being sent
    i,                   \* client: index of the next character of message
    byteCounter,         \* client: index of the next free byte of header.message
    packetCounter,       \* client
    cout,                \* client: what it has printed
    spc,                 \* server: "listening" in the receive loop, or "stopped"
    incomingPacket,      \* server
    serverReply,         \* server (its type)
    totalBytesReceived,  \* server
    expectedPacketIndex, \* server
    sout,                \* server: what it has printed
    c2s,                 \* datagrams sent to the server and not yet received
    s2c,                 \* datagrams sent to the client and not yet received
    ops,                 \* menu choices made so far
    corruptions,         \* datagrams the channel has corrupted so far
    reads,               \* history: replies the client has received so far
    txLog,               \* history: every datagram the client sent, with its menu choice
    rxLog                \* history: every datagram the server received and what it did

clientVars == <<cpc, mode, resendAttempts, header, response, message, i, byteCounter,
                packetCounter, cout>>
serverVars == <<spc, incomingPacket, serverReply, totalBytesReceived, expectedPacketIndex,
                sout>>
vars == <<clientVars, serverVars, c2s, s2c, ops, corruptions, reads, txLog, rxLog>>

(***************************************************************************)
(* Datagrams.                                                               *)
(***************************************************************************)
\* sendto(sockfd, &hdr, n, ...): the first n bytes of the structure
Frame(hdr, n) ==
    [crcChecksum |-> hdr.crcChecksum, packetNumber |-> hdr.packetNumber,
     type |-> hdr.type, message |-> FirstBytes(hdr.message, n - sendSize), len |-> n]

\* sendto(sockfd, 0, 0, ...)
NullDatagram ==
    [crcChecksum |-> <<0, 0>>, packetNumber |-> 0, type |-> 0, message |-> <<>>, len |-> 0]

Logged(dgrams, op, r) == [k \in 1..Len(dgrams) |-> [dgram |-> dgrams[k], op |-> op, reads |-> r]]

Init ==
    /\ cpc = "start"
    /\ mode = -1
    /\ resendAttempts = 0
    /\ header \in {[crcChecksum |-> g.crcChecksum, packetNumber |-> 0, type |-> 0,
                    message |-> g.message] : g \in StackGarbage}
    /\ response = [type |-> 0]
    /\ message = <<>>
    /\ i = 0
    /\ byteCounter = 0
    /\ packetCounter = 1
    /\ cout = <<>>
    /\ spc = "listening"
    /\ incomingPacket = [crcChecksum |-> <<0, 0>>, packetNumber |-> 0, type |-> 0,
                         message |-> <<>>]
    /\ serverReply = [type |-> 0]
    /\ totalBytesReceived = 0
    /\ expectedPacketIndex = 1
    /\ sout = <<>>
    /\ c2s = <<>>
    /\ s2c = <<>>
    /\ ops = 0
    /\ corruptions = 0
    /\ reads = 0
    /\ txLog = <<>>
    /\ rxLog = <<>>

(***************************************************************************)
(* The client.                                                              *)
(***************************************************************************)
\* the connection test: the init frame, then the first blocking recvfrom
ClientConnect ==
    /\ cpc = "start"
    /\ LET h == [header EXCEPT !.type = INIT, !.packetNumber = 1]
           d == Frame(h, InitSize)
       IN /\ header' = h
          /\ c2s' = Append(c2s, d)
          /\ txLog' = txLog \o Logged(<<d>>, ops, reads)
    /\ cpc' = "init_wait"
    /\ UNCHANGED <<mode, resendAttempts, response, message, i, byteCounter, packetCounter,
                   cout, serverVars, s2c, ops, corruptions, reads, rxLog>>

ClientConnected ==
    /\ cpc = "init_wait"
    /\ s2c # <<>>
    /\ response' = [type |-> Head(s2c).type]
    /\ s2c' = Tail(s2c)
    /\ reads' = reads + 1
    /\ cout' = Append(cout, "connected")
    /\ cpc' = "menu"
    /\ UNCHANGED <<mode, resendAttempts, header, message, i, byteCounter, packetCounter,
                   serverVars, c2s, ops, corruptions, txLog, rxLog>>

\* LoopStep sending a packet one byte later
LoopStepLong(msg, s) ==
    IF s.at # "loop" THEN s
    ELSE IF BufAt(msg, s.i + 1) = 0 THEN [s EXCEPT !.at = "end"]
    ELSE IF s.byteCounter % FRAG_SIZE = 0 /\ s.byteCounter # 0
         THEN [i |-> s.i + 1, byteCounter |-> s.byteCounter,
               buf |-> WriteAt(s.buf, s.byteCounter, msg[s.i + 1]), at |-> "send"]
         ELSE [i |-> s.i + 1, byteCounter |-> s.byteCounter + 1,
               buf |-> WriteAt(s.buf, s.byteCounter, msg[s.i + 1]), at |-> "loop"]

\* LoopStep losing the character that completes a packet
LoopStepSkip(msg, s) ==
    IF s.at # "loop" THEN s
    ELSE IF BufAt(msg, s.i + 1) = 0 THEN [s EXCEPT !.at = "end"]
    ELSE IF s.byteCounter % (FRAG_SIZE - 1) = 0 /\ s.byteCounter # 0
         THEN [i |-> s.i + 1, byteCounter |-> s.byteCounter, buf |-> s.buf, at |-> "send"]
         ELSE [i |-> s.i + 1, byteCounter |-> s.byteCounter + 1,
               buf |-> WriteAt(s.buf, s.byteCounter, msg[s.i + 1]), at |-> "loop"]

\* LoopStep sending a packet one byte earlier
LoopStepShort(msg, s) ==
    IF s.at # "loop" THEN s
    ELSE IF BufAt(msg, s.i + 1) = 0 THEN [s EXCEPT !.at = "end"]
    ELSE IF s.byteCounter % (FRAG_SIZE - 2) = 0 /\ s.byteCounter # 0
         THEN [i |-> s.i + 1, byteCounter |-> s.byteCounter,
               buf |-> WriteAt(s.buf, s.byteCounter, msg[s.i + 1]), at |-> "send"]
         ELSE [i |-> s.i + 1, byteCounter |-> s.byteCounter + 1,
               buf |-> WriteAt(s.buf, s.byteCounter, msg[s.i + 1]), at |-> "loop"]

\* one turn of the while loop that copies message into header.message
LoopStep(msg, s) ==
    IF s.at # "loop" THEN s
    ELSE IF BufAt(msg, s.i + 1) = 0 THEN [s EXCEPT !.at = "end"]
    ELSE IF s.byteCounter % (FRAG_SIZE - 1) = 0 /\ s.byteCounter # 0
         THEN [i |-> s.i + 1, byteCounter |-> s.byteCounter,
               buf |-> WriteAt(s.buf, s.byteCounter, msg[s.i + 1]), at |-> "send"]
         ELSE [i |-> s.i + 1, byteCounter |-> s.byteCounter + 1,
               buf |-> WriteAt(s.buf, s.byteCounter, msg[s.i + 1]), at |-> "loop"]

\* n turns of the loop, each half of them in turn
RECURSIVE Iterate(_, _, _)
Iterate(msg, s, n) ==
    IF n = 0 THEN s
    ELSE IF n = 1 THEN LoopStep(msg, s)
    ELSE Only({Iterate(msg, t, n - (n \div 2)) : t \in {Iterate(msg, s, n \div 2)}})

\* the loop from character idx on, up to the next packet to send or the end of
\* the message
FragmentLoop(msg, idx, bc, buf) ==
    Iterate(msg, [i |-> idx, byteCounter |-> bc, buf |-> buf, at |-> "loop"], FRAG_SIZE + 1)

\* DataHeader numbering the packets from 2
DataHeaderFromTwo(buf, pktCnt) ==
    [crcChecksum |-> crc32b(buf), packetNumber |-> pktCnt + 1, type |-> DATA, message |-> buf]

\* header as the client fills it for a message packet
DataHeader(buf, pktCnt) ==
    [crcChecksum |-> crc32b(buf), packetNumber |-> pktCnt, type |-> DATA, message |-> buf]

\* LastHeader keeping the running count as the packetNumber
LastHeaderCounted(hdr) == [hdr EXCEPT !.type = LAST]

\* the message-end flag
LastHeader(hdr) == [hdr EXCEPT !.type = LAST, !.packetNumber = FRAG_SIZE]

\* the text-message code from the top of the while loop: up to the next blocking
\* recvfrom, or through the end of the mode-1 block
SendOn(msg, hdr, pktCnt, idx, resp, sent, op, rd) ==
    \E st \in {FragmentLoop(msg, idx, 0, hdr.message)} :
        /\ i' = st.i
        /\ byteCounter' = st.byteCounter
        /\ response' = resp
        /\ IF st.at = "send"
           THEN \E h \in {DataHeader(st.buf, pktCnt)} :
                  LET d == Frame(h, sendSize + strlen(h.message))
                  IN /\ header' = h
                     /\ c2s' = c2s \o sent \o <<d>>
                     /\ txLog' = txLog \o Logged(sent \o <<d>>, op, rd)
                     /\ packetCounter' = pktCnt
                     /\ cout' = cout
                     /\ cpc' = "frag_wait"
           ELSE IF st.byteCounter # 0
           THEN \E h \in {DataHeader(st.buf, pktCnt)} :
                  LET d == Frame(h, sendSize + strlen(h.message))
                      e == Frame(LastHeader(h), sendSize)
                  IN /\ header' = LastHeader(h)
                     /\ c2s' = c2s \o sent \o <<d, e>>
                     /\ txLog' = txLog \o Logged(sent \o <<d, e>>, op, rd)
                     /\ packetCounter' = pktCnt + 1
                     /\ cout' = cout
                     /\ cpc' = "last_wait"
           ELSE LET h == LastHeader([hdr EXCEPT !.message = st.buf])
                    e == Frame(h, sendSize)
                IN /\ header' = h
                   /\ c2s' = c2s \o sent \o <<e>>
                   /\ txLog' = txLog \o Logged(sent \o <<e>>, op, rd)
                   /\ packetCounter' = pktCnt
                   /\ cout' = cout \o (IF resp.type = ACK THEN <<"acknowledged">> ELSE <<>>)
                                   \o <<"sent">>
                   /\ cpc' = "menu"

\* menu choice 1: a text message
ClientSend(limit, texts) ==
    /\ cpc = "menu"
    /\ ops < limit
    /\ \E m \in texts :
        /\ mode' = 1
        /\ ops' = ops + 1
        /\ message' = m
        /\ SendOn(m, [header EXCEPT !.message = <<>>], 1, 0, [type |-> ACK], <<>>, ops + 1, reads)
    /\ UNCHANGED <<resendAttempts, serverVars, s2c, corruptions, reads, rxLog>>

\* the reply to a full packet sent from inside the while loop
ClientFragReply ==
    /\ cpc = "frag_wait"
    /\ s2c # <<>>
    /\ s2c' = Tail(s2c)
    /\ reads' = reads + 1
    /\ LET resp == [type |-> Head(s2c).type]
           again == IF resp.type = RESEND
                    THEN <<Frame(header, sendSize + strlen(header.message))>>
                    ELSE <<>>
       IN SendOn(message, [header EXCEPT !.message = <<>>], packetCounter + 1, i, resp, again, ops, reads + 1)
    /\ UNCHANGED <<mode, resendAttempts, message, serverVars, ops, corruptions, rxLog>>

\* the reply read after the message-end flag
ClientLastReply ==
    /\ cpc = "last_wait"
    /\ s2c # <<>>
    /\ s2c' = Tail(s2c)
    /\ reads' = reads + 1
    /\ response' = [type |-> Head(s2c).type]
    /\ cout' = cout \o (IF Head(s2c).type = ACK THEN <<"acknowledged">> ELSE <<>>) \o <<"sent">>
    /\ cpc' = "menu"
    /\ UNCHANGED <<mode, resendAttempts, header, message, i, byteCounter, packetCounter,
                   serverVars, c2s, ops, corruptions, txLog, rxLog>>

\* menu choice 4: the packet with an intended error
ClientDiag(limit) ==
    /\ cpc = "menu"
    /\ ops < limit
    /\ mode' = 4
    /\ ops' = ops + 1
    /\ \E buf \in {strcpy(header.message, TestMessage)} :
         LET h == [crcChecksum |-> PlusOne(crc32b(buf)), packetNumber |-> 0, type |-> DIAG,
                   message |-> buf]
             d == Frame(h, sendSize + strlen(buf))
         IN /\ header' = h
            /\ c2s' = Append(c2s, d)
            /\ txLog' = txLog \o Logged(<<d>>, ops + 1, reads)
    /\ response' = [type |-> ACK]
    /\ i' = 0
    /\ byteCounter' = 0
    /\ cpc' = "diag_wait"
    /\ UNCHANGED <<resendAttempts, message, packetCounter, cout, serverVars, s2c,
                   corruptions, reads, rxLog>>

\* a reply to the packet with an intended error: the first recvfrom sets
\* resendAttempts to 1, the one in the while loop increments it
ClientDiagReply ==
    /\ cpc \in {"diag_wait", "diag_retry"}
    /\ s2c # <<>>
    /\ s2c' = Tail(s2c)
    /\ reads' = reads + 1
    /\ response' = [type |-> Head(s2c).type]
    /\ resendAttempts' = IF cpc = "diag_wait" THEN 1 ELSE resendAttempts + 1
    /\ IF resendAttempts' < DiagAttempts /\ response'.type # ACK
       THEN LET d == Frame(header, sendSize + strlen(header.message))
            IN /\ c2s' = Append(c2s, d)
               /\ txLog' = txLog \o Logged(<<d>>, ops, reads + 1)
               /\ cout' = cout
               /\ cpc' = "diag_retry"
       ELSE /\ c2s' = c2s
            /\ txLog' = txLog
            /\ cout' = cout \o (IF response'.type = INTEGRITY THEN <<"error detected">>
                                                                ELSE <<>>)
            /\ cpc' = "menu"
    /\ UNCHANGED <<mode, header, message, i, byteCounter, packetCounter, serverVars, ops,
                   corruptions, rxLog>>

\* menu choice 5: the NULL packet, then the loop ends
ClientQuit(limit) ==
    /\ cpc = "menu"
    /\ ops < limit
    /\ mode' = 5
    /\ ops' = ops + 1
    /\ c2s' = Append(c2s, NullDatagram)
    /\ txLog' = txLog \o Logged(<<NullDatagram>>, ops + 1, reads)
    /\ response' = [type |-> ACK]
    /\ i' = 0
    /\ byteCounter' = 0
    /\ cout' = Append(cout, "returning")
    /\ cpc' = "closed"
    /\ UNCHANGED <<resendAttempts, header, message, packetCounter, serverVars, s2c,
                   corruptions, reads, rxLog>>

(***************************************************************************)
(* The server.                                                              *)
(***************************************************************************)
\* sendto(sockfd, &serverReply, 64, ...): the client reads the type only
Reply(t) == [type |-> t, len |-> ReplySize]

\* what one turn of the receive loop did, for the history
Handled(d, replies, printed, digest) ==
    [dgram |-> d, replies |-> replies, printed |-> printed, digest |-> digest,
     before |-> incomingPacket.message]

\* ServerReplies answering the initialization packet with a resend request
ServerRepliesInitResend(pkt, digest) ==
    IF pkt.packetNumber > 0
    THEN IF pkt.type = INIT THEN <<RESEND>>
         ELSE IF pkt.type = LAST THEN <<ACK>>
         ELSE IF pkt.type = DATA
              THEN IF pkt.crcChecksum = digest THEN <<ACK>> ELSE <<RESEND>>
              ELSE <<>>
    ELSE <<>>

\* ServerReplies reporting a checksum mismatch as an integrity error
ServerRepliesIntegrity(pkt, digest) ==
    IF pkt.packetNumber > 0
    THEN IF pkt.type = INIT \/ pkt.type = LAST THEN <<ACK>>
         ELSE IF pkt.type = DATA
              THEN IF pkt.crcChecksum = digest THEN <<ACK>> ELSE <<INTEGRITY>>
              ELSE <<>>
    ELSE <<>>

\* ServerReplies staying silent on a checksum mismatch
ServerRepliesSilent(pkt, digest) ==
    IF pkt.packetNumber > 0
    THEN IF pkt.type = INIT \/ pkt.type = LAST THEN <<ACK>>
         ELSE IF pkt.type = DATA
              THEN IF pkt.crcChecksum = digest THEN <<ACK>> ELSE <<>>
              ELSE <<>>
    ELSE <<>>

\* the replies of one turn of the receive loop to the packet now in
\* incomingPacket, digest being crc32b of its message field
ServerReplies(pkt, digest) ==
    IF pkt.packetNumber > 0
    THEN IF pkt.type = INIT \/ pkt.type = LAST THEN <<ACK>>
         ELSE IF pkt.type = DATA
              THEN IF pkt.crcChecksum = digest THEN <<ACK>> ELSE <<RESEND>>
              ELSE <<>>
    ELSE <<>>

\* the datagrams that carry them
Replies(types) == [k \in 1..Len(types) |-> Reply(types[k])]

\* the receive loop going on after every datagram, the empty one included
LoopContinuesAlways(n) == n >= 0

\* the loop condition: (n = recvfrom(...)) > 0
LoopContinues(n) == n > 0

\* while ((n = recvfrom(...)) > 0) { ... }
ServerReceive ==
    /\ spc = "listening"
    /\ c2s # <<>>
    /\ c2s' = Tail(c2s)
    /\ LET d == Head(c2s)
       IN IF ~LoopContinues(d.len)
          THEN /\ spc' = "stopped"
               /\ sout' = Append(sout, [kind |-> "stopped", bytes |-> <<>>])
               /\ rxLog' = Append(rxLog, Handled(d, <<>>, <<>>, <<0, 0>>))
               /\ UNCHANGED <<incomingPacket, serverReply, totalBytesReceived,
                              expectedPacketIndex, s2c>>
          ELSE \E pkt \in {[crcChecksum |-> d.crcChecksum, packetNumber |-> d.packetNumber,
                            type |-> d.type,
                            message |-> Overwrite(incomingPacket.message, d.message)]} :
               /\ spc' = spc
               /\ IF pkt.packetNumber > 0
                  THEN /\ totalBytesReceived' = totalBytesReceived + d.len
                       /\ IF pkt.type = INIT \/ pkt.type = LAST
                          THEN /\ serverReply' = [type |-> ACK]
                               /\ s2c' = s2c \o Replies(ServerReplies(pkt, <<0, 0>>))
                               /\ incomingPacket' = pkt
                               /\ rxLog' = Append(rxLog,
                                    Handled(d, ServerReplies(pkt, <<0, 0>>), <<>>, <<0, 0>>))
                               /\ UNCHANGED <<expectedPacketIndex, sout>>
                          ELSE IF pkt.type = DATA
                          THEN \E digest \in {crc32b(pkt.message)} :
                               /\ expectedPacketIndex' = expectedPacketIndex + 1
                               /\ IF pkt.crcChecksum = digest
                                  THEN /\ serverReply' = [type |-> ACK]
                                       /\ s2c' = s2c \o Replies(ServerReplies(pkt, digest))
                                       /\ sout' = sout \o
                                            <<[kind |-> "label", bytes |-> <<>>],
                                              [kind |-> "text", bytes |-> CStr(pkt.message)]>>
                                       /\ incomingPacket' = [pkt EXCEPT !.message = <<>>]
                                       /\ rxLog' = Append(rxLog,
                                            Handled(d, ServerReplies(pkt, digest),
                                                    <<CStr(pkt.message)>>, digest))
                                  ELSE /\ serverReply' = [type |-> RESEND]
                                       /\ s2c' = s2c \o Replies(ServerReplies(pkt, digest))
                                       /\ sout' = Append(sout, [kind |-> "label", bytes |-> <<>>])
                                       /\ incomingPacket' = pkt
                                       /\ rxLog' = Append(rxLog,
                                            Handled(d, ServerReplies(pkt, digest), <<>>, digest))
                          ELSE /\ incomingPacket' = pkt
                               /\ s2c' = s2c \o Replies(ServerReplies(pkt, <<0, 0>>))
                               /\ rxLog' = Append(rxLog,
                                    Handled(d, ServerReplies(pkt, <<0, 0>>), <<>>, <<0, 0>>))
                               /\ UNCHANGED <<serverReply, expectedPacketIndex, sout>>
                  ELSE /\ incomingPacket' = pkt
                       /\ s2c' = s2c \o Replies(ServerReplies(pkt, <<0, 0>>))
                       /\ rxLog' = Append(rxLog,
                            Handled(d, ServerReplies(pkt, <<0, 0>>), <<>>, <<0, 0>>))
                       /\ UNCHANGED <<serverReply, totalBytesReceived, expectedPacketIndex,
                                      sout>>
    /\ UNCHANGED <<clientVars, ops, corruptions, reads, txLog>>

(***************************************************************************)
(* The channel.                                                             *)
(***************************************************************************)
\* the transport flips a bit of the payload of the message packet at the head of
\* the queue
Corrupt ==
    /\ c2s # <<>>
    /\ corruptions < MaxCorrupt
    /\ Head(c2s).type = DATA
    /\ Head(c2s).message # <<>>
    /\ \E k \in {1, Len(Head(c2s).message)} :
         c2s' = <<[Head(c2s) EXCEPT !.message[k] = XorByte[@][1]]>> \o Tail(c2s)
    /\ corruptions' = corruptions + 1
    /\ UNCHANGED <<clientVars, serverVars, s2c, ops, reads, txLog, rxLog>>

\* datagrams of other senders: the server takes them from whoever sent them
ForeignPayloads == {<<97, 98>>, <<97, 98, 99>>}

ForeignFrames ==
    {[crcChecksum |-> crc32b(q), packetNumber |-> n, type |-> DATA, message |-> p,
      len |-> sendSize + Len(p)] : p \in ForeignPayloads, q \in ForeignPayloads, n \in {0, 1}}
    \cup
    {[crcChecksum |-> <<0, 0>>, packetNumber |-> FRAG_SIZE, type |-> LAST, message |-> <<>>,
      len |-> sendSize],
     [crcChecksum |-> <<0, 0>>, packetNumber |-> 1, type |-> INIT, message |-> <<>>,
      len |-> sendSize],
     [crcChecksum |-> <<0, 0>>, packetNumber |-> 0, type |-> INIT, message |-> <<>>,
      len |-> sendSize],
     [crcChecksum |-> <<0, 0>>, packetNumber |-> 1, type |-> DIAG, message |-> <<>>,
      len |-> sendSize]}

Inject ==
    /\ Len(rxLog) + Len(c2s) < MaxInject
    /\ \E f \in ForeignFrames : c2s' = Append(c2s, f)
    /\ UNCHANGED <<clientVars, serverVars, s2c, ops, corruptions, reads, txLog, rxLog>>

(***************************************************************************)
(* Specifications.                                                          *)
(***************************************************************************)
\* a client session of up to MaxOps menu choices, the server, and a channel that
\* may corrupt message packets
Next ==
    \/ ClientConnect
    \/ ClientConnected
    \/ ClientSend(MaxOps, SessionMessages)
    \/ ClientFragReply
    \/ ClientLastReply
    \/ ClientDiag(MaxOps)
    \/ ClientDiagReply
    \/ ClientQuit(MaxOps)
    \/ ServerReceive
    \/ Corrupt

Spec == Init /\ [][Next]_vars

\* text messages only, over a channel that corrupts nothing
NextFrag ==
    \/ ClientConnect
    \/ ClientConnected
    \/ ClientSend(FragOps, Messages)
    \/ ClientFragReply
    \/ ClientLastReply
    \/ ServerReceive

FragSpec == Init /\ [][NextFrag]_vars

\* text messages over a channel that may corrupt message packets and loses
\* nothing: every datagram sent is received, recvfrom returns when a datagram
\* is there
NextLive ==
    \/ ClientConnect
    \/ ClientConnected
    \/ ClientSend(FragOps, SessionMessages)
    \/ ClientFragReply
    \/ ClientLastReply
    \/ ServerReceive
    \/ Corrupt

\* recvfrom of the server returns: it is listening and a datagram is there
ServerCanReceive == spc = "listening" /\ c2s # <<>>

\* recvfrom in the fragmentation loop returns: a reply is there
ClientCanReadFragReply == cpc = "frag_wait" /\ s2c # <<>>

\* A blocking recvfrom returns once a datagram is queued: weak fairness of each
\* receiving step.  For ServerReceive and ClientFragReply it is written out,
\* with the condition under which the step is enabled in place of ENABLED.
LiveSpec ==
    /\ Init
    /\ [][NextLive]_vars
    /\ WF_vars(ClientConnected)
    /\ WF_vars(ClientLastReply)
    /\ ([]<>(~ServerCanReceive) \/ []<><<ServerReceive>>_vars)
    /\ ([]<>(~ClientCanReadFragReply) \/ []<><<ClientFragReply>>_vars)

\* the server alone, receiving the datagrams of arbitrary senders
NextServer ==
    \/ Inject
    \/ ServerReceive

ServerSpec == Init /\ [][NextServer]_vars

(***************************************************************************)
(* Properties of the server's receive loop.                                 *)
(***************************************************************************)
IsData(d) == d.type = DATA /\ d.packetNumber > 0

\* C1: corruption rejection.  Every message packet (type 10, packetNumber > 0)
\* the server received whose checksum field differs from crc32b of the payload
\* it carried was answered with exactly one resend request (type 1), and its
\* payload was not printed.
C1_CorruptionRejected ==
    \A k \in 1..Len(rxLog) :
        (IsData(rxLog[k].dgram)
           /\ rxLog[k].dgram.crcChecksum # crc32b(rxLog[k].dgram.message))
        => (rxLog[k].replies = <<RESEND>> /\ rxLog[k].printed = <<>>)

\* C2: accepted delivery.  Every message packet (type 10, packetNumber > 0) the
\* server received whose checksum field equals crc32b of the payload it carried
\* was answered with one ACK (type 0) and its payload was printed once, exactly
\* as carried, whatever the server had received before.
C2_AcceptedDelivery ==
    \A k \in 1..Len(rxLog) :
        (IsData(rxLog[k].dgram)
           /\ rxLog[k].dgram.crcChecksum = crc32b(rxLog[k].dgram.message))
        => (rxLog[k].replies = <<ACK>> /\ rxLog[k].printed = <<rxLog[k].dgram.message>>)

\* C3: zero-sequence frames are no-ops.  A turn of the receive loop that takes a
\* datagram with packetNumber = 0 sends no reply and leaves the output, the
\* counters and the bytes of the receive buffer that later packets are checked
\* against as they were.
C3_ZeroSequenceNoOp ==
    [][(/\ spc = "listening"
        /\ c2s # <<>>
        /\ Head(c2s).len > 0
        /\ Head(c2s).packetNumber = 0
        /\ Len(c2s') < Len(c2s))
       => (/\ s2c' = s2c
           /\ sout' = sout
           /\ totalBytesReceived' = totalBytesReceived
           /\ expectedPacketIndex' = expectedPacketIndex
           /\ incomingPacket'.message = incomingPacket.message)]_vars

(***************************************************************************)
(* Properties of a client session.  The k-th datagram the client sent is   *)
(* the k-th the server received: txLog[k] and rxLog[k] are the same         *)
(* datagram, as sent and as handled.                                        *)
(***************************************************************************)
\* the client has run a text message through to "Message has been successfully sent."
MessageSent == cpc = "menu" /\ mode = 1

\* the places in txLog of the datagrams of menu choice op
FramesOf(op) == {k \in 1..Len(txLog) : txLog[k].op = op}

\* the message packets of menu choice op, in the order sent
DataFramesOf(op) == SelectSeq(txLog, LAMBDA e : e.op = op /\ IsData(e.dgram))

\* every datagram of menu choice op, in the order sent
AllFramesOf(op) == SelectSeq(txLog, LAMBDA e : e.op = op)

RECURSIVE Concat(_)
Concat(parts) == IF parts = <<>> THEN <<>> ELSE Head(parts) \o Concat(Tail(parts))

Payloads(entries) == [k \in 1..Len(entries) |-> entries[k].dgram.message]

\* no message packet of menu choice op was sent twice
NoRetransmission(op) ==
    \A a, b \in 1..Len(DataFramesOf(op)) :
        a # b => DataFramesOf(op)[a].dgram.packetNumber # DataFramesOf(op)[b].dgram.packetNumber

\* what the server printed for the datagrams of menu choice op, in order
RECURSIVE PrintedUpTo(_, _)
PrintedUpTo(op, k) ==
    IF k = 0 THEN <<>>
    ELSE PrintedUpTo(op, k - 1) \o
         (IF k <= Len(txLog) /\ txLog[k].op = op THEN Concat(rxLog[k].printed) ELSE <<>>)

PrintedFor(op) == PrintedUpTo(op, Len(rxLog))

CeilDiv(a, b) == (a + b - 1) \div b

\* C4: resend convergence.  When a message has been sent and the server has
\* handled every datagram: for each fragment whose transmissions were answered
\* resend request (type 1) N times and then ACK, the N+1 transmissions are the
\* same datagram (same packetNumber, same bytes), and after each of them the
\* client received a reply before it sent anything else.
C4_ResendConvergence ==
    (MessageSent /\ c2s = <<>>) =>
        \A n \in 1..packetCounter :
            LET T == {k \in FramesOf(ops) :
                         IsData(txLog[k].dgram) /\ txLog[k].dgram.packetNumber = n}
            IN (/\ T # {}
                /\ \A k \in T :
                     rxLog[k].replies = IF k = Max(T) THEN <<ACK>> ELSE <<RESEND>>)
               => (\A k \in T :
                     /\ txLog[k].dgram = txLog[Min(T)].dgram
                     /\ k = Len(txLog) \/ txLog[k + 1].reads > txLog[k].reads)

\* C5: one frame in flight.  At most one datagram is in flight between client
\* and server: a frame on its way to the server or the reply to it on its way
\* back.
C5_OneInFlight == Len(c2s) + Len(s2c) <= 1

\* C6: end-to-end delivery under corruption.  Whenever the client has reported
\* a message as sent, the payloads the server printed for the packets of that
\* message, concatenated, are the message.
C6_EndToEnd == MessageSent => PrintedFor(ops) = message

\* C7: end-to-end short message.  Over a channel that corrupts and loses
\* nothing, once a non-empty message shorter than one fragment is sent and
\* handled: the client transmitted one message packet with packetNumber 1
\* carrying the message, then one message-end frame, and the server printed the
\* message once and answered each of the two frames with ACK.
C7_ShortMessage ==
    (MessageSent /\ c2s = <<>> /\ Len(message) > 0 /\ Len(message) < FRAG_SIZE - 1) =>
        LET F == AllFramesOf(ops)
            first == Min(FramesOf(ops))
        IN /\ Len(F) = 2
           /\ IsData(F[1].dgram) /\ F[1].dgram.packetNumber = 1
           /\ F[1].dgram.message = message
           /\ F[2].dgram.type = LAST
           /\ rxLog[first].replies = <<ACK>>
           /\ rxLog[first].printed = <<message>>
           /\ rxLog[first + 1].replies = <<ACK>>
           /\ rxLog[first + 1].printed = <<>>

\* C8: fragmentation round-trip.  When a message has been sent and none of its
\* packets was retransmitted, the payloads of its message packets, concatenated
\* in the order sent, are the message.
C8_RoundTrip ==
    (MessageSent /\ NoRetransmission(ops)) =>
        Concat(Payloads(DataFramesOf(ops))) = message

\* a message of three packets has been sent without a retransmission
C8_Witness ==
    /\ MessageSent
    /\ NoRetransmission(ops)
    /\ Len(DataFramesOf(ops)) = 3
    /\ Len(message) > 2 * FRAG_SIZE

\* C9 as claimed: the number of message packets is ceil(L / 511), and a
\* message of a multiple of 511 bytes ends with an empty terminal frame.
C9_FragmentCount511 ==
    (MessageSent /\ NoRetransmission(ops)) =>
        /\ Len(DataFramesOf(ops)) = CeilDiv(Len(message), FRAG_SIZE - 1)
        /\ Len(message) % (FRAG_SIZE - 1) = 0 =>
             LET F == AllFramesOf(ops)
             IN F # <<>> /\ F[Len(F)].dgram.type = LAST /\ F[Len(F)].dgram.message = <<>>

\* C9 amended: when a message of L bytes has been sent without a
\* retransmission, the number of message packets is ceil(L / 512); they are
\* followed by exactly one message-end frame (type 16) without payload, for
\* every L, and no empty message packet is sent.
C9_FragmentCount ==
    (MessageSent /\ NoRetransmission(ops)) =>
        LET F == AllFramesOf(ops)
            n == Len(DataFramesOf(ops))
        IN /\ n = CeilDiv(Len(message), FRAG_SIZE)
           /\ Len(F) = n + 1
           /\ \A k \in 1..n : IsData(F[k].dgram) /\ F[k].dgram.message # <<>>
           /\ F[n + 1].dgram.type = LAST /\ F[n + 1].dgram.message = <<>>

\* a message of exactly two full packets has been sent
C9_Witness ==
    /\ MessageSent
    /\ NoRetransmission(ops)
    /\ Len(message) = 2 * FRAG_SIZE
    /\ Len(DataFramesOf(ops)) = 2

\* C10: the diagnostic mode terminates.  The client never stands in a recvfrom
\* of the diagnostic mode with nothing left that could happen, and it sends the
\* packet with the intended error at most 5 times per run of the mode.
C10_DiagTerminates ==
    /\ cpc \in {"diag_wait", "diag_retry"} => ENABLED Next
    /\ \A op \in 1..ops :
         Cardinality({k \in FramesOf(op) : txLog[k].dgram.type = DIAG}) <= DiagAttempts

(***************************************************************************)
(* Properties of the session as a whole.                                    *)
(***************************************************************************)
\* C11 as claimed: the receive loop does not exit when the server receives the
\* zero-byte datagram the client sends on menu choice 5.
C11_LoopSurvivesNull ==
    \A k \in 1..Len(rxLog) : rxLog[k].dgram.len = 0 => spc = "listening"

\* C11 amended: the receive loop exits exactly when the server receives a
\* zero-byte datagram (recvfrom returns 0), the client's session-termination
\* datagram included: the server has stopped if and only if the last datagram it
\* received was empty, every datagram before it was not, and on stopping it
\* prints that it stopped listening.
C11_NullStopsServer ==
    /\ spc = "stopped" <=> (rxLog # <<>> /\ rxLog[Len(rxLog)].dgram.len = 0)
    /\ \A k \in 1..(Len(rxLog) - 1) : rxLog[k].dgram.len > 0
    /\ spc = "stopped" => (sout # <<>> /\ sout[Len(sout)].kind = "stopped")

\* the client chose 5 and the server has received its empty datagram
C11_Witness ==
    /\ mode = 5
    /\ cpc = "closed"
    /\ c2s = <<>>
    /\ spc = "stopped"
    /\ rxLog[Len(rxLog)].dgram = NullDatagram

\* the place of the reply to the k-th datagram among the replies the server sent
ReplyIndex(k) == Cardinality({j \in 1..k : rxLog[j].replies # <<>>})

\* the client has received the reply the server sent for its k-th datagram
HasReadReplyTo(k) ==
    /\ k <= Len(rxLog)
    /\ rxLog[k].replies # <<>>
    /\ reads >= ReplyIndex(k)

\* C12: finalize acknowledgment.  Whenever the client has reported a message as
\* sent, it has sent exactly one message-end frame (type 16) for it, the server
\* has answered that frame with ACK, and the client has received that answer.
C12_FinalizeAck ==
    MessageSent =>
        LET E == {k \in FramesOf(ops) : txLog[k].dgram.type = LAST}
        IN /\ Cardinality(E) = 1
           /\ \A k \in E : HasReadReplyTo(k) /\ rxLog[k].replies = <<ACK>>

\* C13: every resend request is honoured.  Whenever the client has reported a
\* message as sent, each message packet of it whose resend request (type 1) the
\* client has received, the last, partly filled one included, was transmitted
\* again after it.
C13_ResendHonoured ==
    MessageSent =>
        \A k \in FramesOf(ops) :
            (/\ IsData(txLog[k].dgram)
             /\ HasReadReplyTo(k)
             /\ rxLog[k].replies = <<RESEND>>)
            => \E j \in FramesOf(ops) : j > k /\ txLog[j].dgram = txLog[k].dgram

\* C14 as claimed: no message packet the client transmitted carries more than
\* 511 payload bytes.
C14_PayloadBound511 ==
    \A k \in 1..Len(txLog) :
        IsData(txLog[k].dgram) => Len(txLog[k].dgram.message) <= FRAG_SIZE - 1

\* C14 amended: no message packet the client transmitted carries more than 512
\* payload bytes (FRAG_SIZE), and the datagram that carries it is no longer than
\* the 7 header bytes plus 512.
C14_PayloadBound ==
    \A k \in 1..Len(txLog) :
        IsData(txLog[k].dgram) =>
            /\ Len(txLog[k].dgram.message) <= FRAG_SIZE
            /\ txLog[k].dgram.len <= sendSize + FRAG_SIZE

\* a message longer than a packet has been sent: its first packet is full
C14_Witness ==
    /\ MessageSent
    /\ Len(message) > FRAG_SIZE
    /\ \E k \in FramesOf(ops) :
         IsData(txLog[k].dgram) /\ Len(txLog[k].dgram.message) = FRAG_SIZE

\* C15: sequence numbers of message packets.  Within the packets of each text
\* message, in the order sent: the first has packetNumber 1; each further one
\* either has the packetNumber of the one before it plus 1, or has the same
\* packetNumber and is then the same datagram sent again; the next message
\* starts at 1 again.
C15_SequenceNumbers ==
    \A op \in 1..ops :
        LET D == DataFramesOf(op)
        IN /\ D # <<>> => D[1].dgram.packetNumber = 1
           /\ \A a \in 2..Len(D) :
                \/ D[a].dgram.packetNumber = D[a - 1].dgram.packetNumber + 1
                \/ D[a].dgram = D[a - 1].dgram

\* two messages have been sent, the first in two packets of which the first was
\* sent twice
C15_Witness ==
    /\ MessageSent
    /\ ops = 2
    /\ Len(DataFramesOf(1)) = 3
    /\ DataFramesOf(1)[2].dgram = DataFramesOf(1)[1].dgram
    /\ DataFramesOf(1)[3].dgram.packetNumber = 2
    /\ DataFramesOf(2) # <<>>

\* the menu choices that were text messages
MessageOps == {op \in 1..ops : \E k \in FramesOf(op) : txLog[k].dgram.type \in {DATA, LAST}}

\* the client is through with menu choice op
Completed(op) == op < ops \/ cpc \in {"menu", "closed"}

\* C16: the message-end frame.  For every text message, the empty one and one
\* of a whole number of packets included: the client sends at most one frame of
\* type 16, it is the last datagram of the message, after every message packet,
\* it has packetNumber 512 (FRAG_SIZE) and carries no payload byte; and once the
\* client is through with the message it has sent that frame.
C16_EndOfMessageFrame ==
    \A op \in MessageOps :
        LET F == AllFramesOf(op)
            E == {k \in 1..Len(F) : F[k].dgram.type = LAST}
        IN /\ Cardinality(E) <= 1
           /\ \A k \in E :
                /\ k = Len(F)
                /\ \A j \in 1..(k - 1) : IsData(F[j].dgram)
                /\ F[k].dgram.packetNumber = FRAG_SIZE
                /\ F[k].dgram.message = <<>>
                /\ F[k].dgram.len = sendSize
           /\ Completed(op) => E # {}

\* a message of exactly one full packet and then the empty message have been sent
C16_Witness ==
    /\ MessageSent
    /\ ops = 2
    /\ Len(AllFramesOf(1)) = 2
    /\ Len(AllFramesOf(1)[1].dgram.message) = FRAG_SIZE
    /\ AllFramesOf(1)[2].dgram.type = LAST
    /\ Len(AllFramesOf(2)) = 1
    /\ AllFramesOf(2)[1].dgram.type = LAST
    /\ message = <<>>

\* the datagrams the client sent that belong to a text message
MessageFrames == {k \in 1..Len(txLog) : txLog[k].dgram.type \in {DATA, LAST}}

\* C17: the initialization handshake comes first.  Once the client has sent a
\* message packet or a message-end frame, its first datagram was the
\* initialization packet (type 4, packetNumber 1), the server answered it with
\* ACK, and the client had received that answer before it sent any of them;
\* and the server has answered every initialization packet with packetNumber > 0
\* with one ACK.
C17_InitHandshakeFirst ==
    /\ MessageFrames # {} =>
         /\ txLog[1].dgram.type = INIT
         /\ txLog[1].dgram.packetNumber = 1
         /\ 1 \notin MessageFrames
         /\ rxLog[1].replies = <<ACK>>
         /\ \A k \in MessageFrames : txLog[k].reads >= ReplyIndex(1)
    /\ \A k \in 1..Len(rxLog) :
         (rxLog[k].dgram.type = INIT /\ rxLog[k].dgram.packetNumber > 0
            /\ rxLog[k].dgram.len > 0)
         => rxLog[k].replies = <<ACK>>

\* the client has connected and sent a message of two packets
C17_Witness ==
    /\ MessageSent
    /\ Cardinality(MessageFrames) >= 3
    /\ txLog[1].dgram.type = INIT
    /\ txLog[2].reads = 1

C19_ReplyPairing ==
    /\ \A k \in 1..Len(rxLog) :
         HasReadReplyTo(k) =>
             k = Max({j \in 1..Len(txLog) : txLog[j].reads < ReplyIndex(k)})
    /\ (MessageSent /\ c2s = <<>>) => s2c = <<>>

\* C20: sending a message terminates.  Over a channel that loses nothing and
\* corrupts payload bytes at most, whenever the client stands in a recvfrom of
\* the text-message code, it later reports the message as sent and is back at
\* the menu, whatever the length of the message.
C20_SendTerminates ==
    (mode = 1 /\ cpc \in {"frag_wait", "last_wait"}) ~> MessageSent

\* a message of exactly one full packet, corrupted on its way, has been sent
C20_Witness ==
    /\ MessageSent
    /\ Len(message) = FRAG_SIZE
    /\ corruptions > 0
    /\ \E k \in FramesOf(ops) : HasReadReplyTo(k) /\ rxLog[k].replies = <<RESEND>>

====
